---- MODULE Spec2Model ----
(***************************************************************************)
(* A model of pdf2yaml.py: the command-line driver main(), the converter   *)
(* adapter pdf_to_markdown() with its progress_callback(), and the         *)
(* template assembler markdown_to_yaml_template().                         *)
(*                                                                         *)
(* Text is a sequence of units.  A unit of a path is one character; a unit *)
(* of the converted Markdown is one code point; a unit of the YAML         *)
(* scaffold is one literal piece of the template string.  A file holds a   *)
(* sequence of bytes: an ASCII unit is stored as itself, a non-ASCII code  *)
(* point as its UTF-8 bytes.  Newlines are written as they are             *)
(* (os.linesep = "\n").                                                    *)
(***************************************************************************)
EXTENDS Integers, Sequences, FiniteSets, TLC

(* ------------------------------ bounds --------------------------------- *)

\* longest file stem of an input path
MaxStem == 2
\* longest Markdown text the converter returns
MaxLen == 2
\* most progress events the converter delivers in one conversion
MaxEvents == 2

(* --------------------------- str operations ---------------------------- *)

RECURSIVE SeqsUpTo(_, _)
SeqsUpTo(S, n) ==
  IF n = 0 THEN {<<>>}
  ELSE LET shorter == SeqsUpTo(S, n - 1)
       IN  shorter \cup {Append(s, c) : s \in {t \in shorter : Len(t) = n - 1}, c \in S}

\* str.lower() on one character
LowerChar(c) ==
  CASE c = "P" -> "p"
    [] c = "D" -> "d"
    [] c = "F" -> "f"
    [] c = "T" -> "t"
    [] c = "X" -> "x"
    [] c = "A" -> "a"
    [] OTHER -> c

\* str.lower()
Lower(s) == [i \in 1..Len(s) |-> LowerChar(s[i])]

\* str.rfind(c): the last 0-based index of c in s, -1 when there is none
RECURSIVE RFind(_, _)
RFind(s, c) ==
  IF s = <<>> THEN -1
  ELSE IF s[Len(s)] = c THEN Len(s) - 1
  ELSE RFind(SubSeq(s, 1, Len(s) - 1), c)

(* ------------------------------ pathlib -------------------------------- *)

\* the components of a path string, split at "/"
RECURSIVE SplitSlash(_)
SplitSlash(s) ==
  IF s = <<>> THEN << <<>> >>
  ELSE LET rest == SplitSlash(Tail(s))
       IN  IF Head(s) = "/" THEN << <<>> >> \o rest
           ELSE << <<Head(s)>> \o Head(rest) >> \o Tail(rest)

\* PurePosixPath parsing: empty and "." components are dropped
PathParts(s) == SelectSeq(SplitSlash(s), LAMBDA c : c # <<>> /\ c # <<".">>)

\* the root of a path string: "/" for one leading slash or three and more,
\* "//" for exactly two
PathRoot(s) ==
  IF Len(s) >= 1 /\ s[1] = "/"
  THEN IF Len(s) >= 2 /\ s[2] = "/" /\ ~(Len(s) >= 3 /\ s[3] = "/")
       THEN <<"/", "/">>
       ELSE <<"/">>
  ELSE <<>>

RECURSIVE JoinSlash(_)
JoinSlash(parts) ==
  IF parts = <<>> THEN <<>>
  ELSE IF Len(parts) = 1 THEN parts[1]
  ELSE parts[1] \o <<"/">> \o JoinSlash(Tail(parts))

\* str(Path(s)): the normalised path
Path(s) ==
  LET root  == PathRoot(s)
      parts == PathParts(s)
  IN  IF root = <<>> /\ parts = <<>> THEN <<".">>
      ELSE root \o JoinSlash(parts)

\* Path.name: the last component, "" for a path with none
PathName(p) ==
  LET parts == PathParts(p)
  IN  IF parts = <<>> THEN <<>> ELSE parts[Len(parts)]

\* Path.suffix: the last dot of the name and what follows, unless the dot
\* is the first or the last character of the name
PathSuffix(p) ==
  LET name == PathName(p)
      i    == RFind(name, ".")
  IN  IF 0 < i /\ i < Len(name) - 1
      THEN SubSeq(name, i + 1, Len(name))
      ELSE <<>>

\* Path.with_suffix(suffix) of a path that has a name
PathWithSuffix(p, suffix) ==
  LET name == PathName(p)
      old  == PathSuffix(p)
      stem == SubSeq(name, 1, Len(name) - Len(old))
  IN  SubSeq(p, 1, Len(p) - Len(name)) \o stem \o suffix

(* ------------------------ template and encoding ------------------------ *)

\* the literal of markdown_to_yaml_template, cut into pieces; "{}" is the
\* replacement field of str.format
YamlTemplate ==
  <<
     "# YAML PRD - Generated from PDF\n",
     "# Review and edit this template to match your needs\n",
     "\n",
     "prd:\n",
     "  ", "title", ": \"TODO: Extract title from document\"\n",
     "  ", "purpose", ": \"TODO: Extract purpose/objective from document\"\n",
     "  \n",
     "  ", "features", ":\n",
     "    # TODO: Extract user stories/features from the markdown content\n",
     "    - id: F1\n",
     "      user_story: \"As a [user], I can [action] so that [benefit]\"\n",
     "    - id: F2\n",
     "      user_story: \"...\"\n",
     "  \n",
     "  ", "metrics", ":\n",
     "    # TODO: Extract success metrics/KPIs\n",
     "    - metric: Metric_Name\n",
     "      target: \"Target value\"\n",
     "  \n",
     "  ", "constraints", ":\n",
     "    # TODO: Extract constraints, limitations, and requirements\n",
     "    - \"Constraint 1\"\n",
     "    - \"Constraint 2\"\n",
     "\n",
     "# Optional sections (uncomment as needed):\n",
     "# technical_specs:\n",
     "#   api:\n",
     "#     - endpoint: /api/v1/resource\n",
     "#       method: POST\n",
     "#   database:\n",
     "#     table_name:\n",
     "#       column: type\n",
     "# \n",
     "# dependencies:\n",
     "#   - name: service_name\n",
     "#     version: \">=1.0\"\n",
     "# \n",
     "# testing:\n",
     "#   coverage: 80\n",
     "#   scenarios:\n",
     "#     - name: scenario_name\n",
     "\n",
     "# === Original Markdown Content ===\n",
     "# Use this content to fill in the YAML structure above\n",
     "---\n",
     "{}", "\n"
  >>

\* template.format(arg): each replacement field of the template becomes
\* the argument; the argument itself is not scanned
RECURSIVE Format(_, _)
Format(template, arg) ==
  IF template = <<>> THEN <<>>
  ELSE IF Head(template) = "{}" THEN arg \o Format(Tail(template), arg)
  ELSE <<Head(template)>> \o Format(Tail(template), arg)

\* a bug: the formatted template is formatted again, so that a replacement
\* field in the Markdown is filled too
markdown_to_yaml_template_twice(markdown_content) ==
  Format(Format(YamlTemplate, markdown_content), markdown_content)

markdown_to_yaml_template(markdown_content) ==
  Format(YamlTemplate, markdown_content)

\* UTF-8 of one unit: a lone surrogate has no encoding
Utf8Unit(u) ==
  CASE u = "U+00E9" -> <<"0xC3", "0xA9">>
    [] OTHER -> <<u>>

Encodable(text) == \A i \in 1..Len(text) : text[i] # "U+D800"

\* str.encode("utf-8") of an encodable text
RECURSIVE Utf8Encode(_)
Utf8Encode(text) ==
  IF text = <<>> THEN <<>>
  ELSE Utf8Unit(Head(text)) \o Utf8Encode(Tail(text))

\* bytes.decode("utf-8") of well-formed bytes
RECURSIVE Utf8Decode(_)
Utf8Decode(bytes) ==
  IF bytes = <<>> THEN <<>>
  ELSE IF Len(bytes) >= 2 /\ bytes[1] = "0xC3" /\ bytes[2] = "0xA9"
       THEN <<"U+00E9">> \o Utf8Decode(SubSeq(bytes, 3, Len(bytes)))
       ELSE <<Head(bytes)>> \o Utf8Decode(Tail(bytes))

(* ------------------------------- inputs -------------------------------- *)

Stems == SeqsUpTo({"a", "."}, MaxStem)

Extensions ==
  { <<>>, <<".", "p", "d", "f">>, <<".", "P", "d", "F">>, <<".", "t", "x", "t">> }

\* the pdf_file arguments: a stem and an extension, bare, under "./", under
\* the directory "d", and with a trailing slash
PdfFiles ==
  LET names == {st \o e : st \in Stems, e \in Extensions}
  IN  names \cup {<<".", "/">> \o n : n \in names}
            \cup {<<"d", "/">> \o n : n \in names}
            \cup {n \o <<"/">> : n \in names}

\* args.output: None when -o is absent, else the string given
NoOutput == [given |-> FALSE, value |-> <<>>]

OutputValues ==
  { <<>>, <<"o">>, <<".", "/", "o">>, <<"d">>, <<"a", ".", "p", "d", "f">> }

Outputs == {NoOutput} \cup {[given |-> TRUE, value |-> v] : v \in OutputValues}

Namespaces ==
  [pdf_file : PdfFiles, output : Outputs, markdown_only : BOOLEAN,
   keep_headers : BOOLEAN, include_empty_tables : BOOLEAN]

\* progress.percentage values the engine reports
Percentages == {50, 100, 150}

\* the units of the Markdown text the engine returns
MarkdownUnits == {"{}", "---\n", "U+00E9", "U+D800"}

\* what the engine does in one conversion: the progress events it delivers,
\* then the text it returns or the exception it raises
EngineRuns ==
  [events : SeqsUpTo(Percentages, MaxEvents),
   raises : {FALSE},
   text   : SeqsUpTo(MarkdownUnits, MaxLen)]
  \cup
  [events : SeqsUpTo(Percentages, MaxEvents),
   raises : {TRUE},
   text   : {<<>>}]

(* ----------------------------- file system ----------------------------- *)

\* paths that are directories
Directories == { <<".">>, <<"/">>, <<"d">> }

PdfBytes == <<"%PDF">>
OldBytes == <<"old">>

\* a bug: the existence check always passes
ExistsUnchecked(files, p) == TRUE

\* Path.exists()
Exists(files, p) == p \in DOMAIN files \/ p \in Directories

(* ------------------------------- state --------------------------------- *)

VARIABLES
  args,              \* the parsed command line
  engine,            \* what the PDF engine does when convert() is called
  fs0,               \* the files when the program starts
  fs,                \* the files: path -> bytes
  pc,                \* where main is
  pdf_path,          \* Path(args.pdf_file), as its string
  output_path,       \* the resolved output path, as its string
  calls,             \* the PDF2Markdown4LLM converters built and invoked
  delivered,         \* the progress events delivered so far
  markdown_content,
  output_content,
  exc,               \* the step that raised the exception caught by main
  stdout,
  exit_code          \* the process's exit status, NotExited while it runs

vars ==
  <<args, engine, fs0, fs, pc, pdf_path, output_path, calls, delivered,
    markdown_content, output_content, exc, stdout, exit_code>>

NotExited == -1
Unset == <<>>

(* ------------------------------ messages ------------------------------- *)

MsgNotFound    == "Error: File '{pdf_path}' not found\n"
MsgNotPdf      == "Error: File '{pdf_path}' is not a PDF\n"
MsgConverting  == "Converting {pdf_path} to Markdown...\n"
MsgProgress    == "\rPhase: {phase}, Page {current_page}/{total_pages}, Progress: {percentage:.1f}%"
MsgNewline     == "\n"
MsgMarkdown    == "\nMarkdown saved to: {output_path}\n"
MsgYaml        == "\nYAML PRD template saved to: {output_path}\n"
MsgNextSteps   ==
  << "\nNext steps:\n",
     "1. Open the YAML file and review the generated template\n",
     "2. Extract relevant information from the markdown section\n",
     "3. Fill in the TODO sections with actual content\n",
     "4. Remove the markdown section once extraction is complete\n" >>
MsgError       == "\nError converting PDF: {e}\n"

(* --------------------------- pieces of main ---------------------------- *)

\* a bug: the test looks at the end of the lowered path string, not at
\* the suffix of the name
IsPdfByEnding(p) ==
  /\ Len(p) >= 4
  /\ Lower(SubSeq(p, Len(p) - 3, Len(p))) = <<".", "p", "d", "f">>

\* line 116: the suffix test
IsPdf(p) == Lower(PathSuffix(p)) = <<".", "p", "d", "f">>

\* line 121: the truth value of args.output, None or a string
OutputGiven(a) == a.output.given /\ a.output.value # <<>>

\* a bug: the two suffixes are swapped
OutputPathForSwapped(a) ==
  IF OutputGiven(a)
  THEN Path(a.output.value)
  ELSE LET suffix == IF a.markdown_only THEN <<".", "y", "a", "m", "l">>
                     ELSE <<".", "m", "d">>
       IN  PathWithSuffix(Path(a.pdf_file), suffix)

\* lines 121-125
OutputPathFor(a) ==
  IF OutputGiven(a)
  THEN Path(a.output.value)
  ELSE LET suffix == IF a.markdown_only THEN <<".", "m", "d">>
                     ELSE <<".", "y", "a", "m", "l">>
       IN  PathWithSuffix(Path(a.pdf_file), suffix)

\* a bug: the flag is handed over without the negation
ConverterForKeep(a) ==
  [remove_headers    |-> a.keep_headers,
   skip_empty_tables |-> ~a.include_empty_tables,
   table_header      |-> "### Table"]

\* lines 131-132 and 21-26: the converter main asks for
ConverterFor(a) ==
  [remove_headers    |-> ~a.keep_headers,
   skip_empty_tables |-> ~a.include_empty_tables,
   table_header      |-> "### Table"]

\* a bug: only exactly 100% ends the line
NewlineAfterExactly(percentage) == percentage = 100

\* line 15
NewlineAfter(percentage) == percentage >= 100

\* progress_callback
ProgressOutput(percentage) ==
  <<MsgProgress>> \o (IF NewlineAfter(percentage) THEN <<MsgNewline>> ELSE <<>>)

\* a bug: the branches of the mode test are swapped
OutputContentForSwapped(a, md) ==
  IF a.markdown_only THEN markdown_to_yaml_template(md) ELSE md

\* lines 136-140
OutputContentFor(a, md) ==
  IF a.markdown_only THEN md ELSE markdown_to_yaml_template(md)

\* lines 138-146
SavedOutput(a) ==
  IF a.markdown_only THEN <<MsgMarkdown>> ELSE <<MsgYaml>> \o MsgNextSteps

(* -------------------------------- Init --------------------------------- *)

\* the files before the run: the input may exist, and a file may already be
\* at the path the output will go to
StartFiles(a, inputExists, outputExists) ==
  LET inp  == Path(a.pdf_file)
      out  == IF OutputGiven(a) \/ PathName(inp) # <<>>
              THEN OutputPathFor(a) ELSE <<".">>
      outF == IF outputExists /\ out \notin Directories
              THEN out :> OldBytes ELSE <<>>
      inF  == IF inputExists /\ inp \notin Directories
              THEN inp :> PdfBytes ELSE <<>>
  IN  inF @@ outF

InitWith(a, e, files) ==
  /\ args = a
  /\ engine = e
  /\ fs0 = files
  /\ fs = files
  /\ pc = "validate"
  /\ pdf_path = Unset
  /\ output_path = Unset
  /\ calls = <<>>
  /\ delivered = 0
  /\ markdown_content = Unset
  /\ output_content = Unset
  /\ exc = "none"
  /\ stdout = <<>>
  /\ exit_code = NotExited

\* every command line, with three engine behaviours: progress to 100% and a
\* text, an exception, a text that UTF-8 cannot encode
SampleRuns ==
  { [events |-> <<50, 100>>, raises |-> FALSE, text |-> <<"U+00E9">>],
    [events |-> <<>>,        raises |-> TRUE,  text |-> <<>>],
    [events |-> <<50>>,      raises |-> FALSE, text |-> <<"U+D800">>] }

Init ==
  \E a \in Namespaces, e \in SampleRuns, inputExists \in BOOLEAN,
     outputExists \in BOOLEAN :
    InitWith(a, e, StartFiles(a, inputExists, outputExists))

APdf == <<"a", ".", "p", "d", "f">>

\* the command lines of the runs that look at the converted text and at
\* the progress line: a.pdf, with and without -m, to the derived path, to
\* the file o and to the directory d
EngineArgs ==
  [pdf_file : {APdf},
   output : {NoOutput, [given |-> TRUE, value |-> <<"o">>],
             [given |-> TRUE, value |-> <<"d">>]},
   markdown_only : BOOLEAN, keep_headers : {FALSE},
   include_empty_tables : {FALSE}]

\* every text the engine returns, after one progress event
ContentRuns == {e \in EngineRuns : e.events = <<100>>}

InitContent ==
  \E a \in EngineArgs, e \in ContentRuns, inputExists \in BOOLEAN,
     outputExists \in BOOLEAN :
    InitWith(a, e, StartFiles(a, inputExists, outputExists))

\* every sequence of progress events, before a text or an exception
ProgressRuns == {e \in EngineRuns : Len(e.text) <= 1}

InitProgress ==
  \E a \in EngineArgs, e \in ProgressRuns, inputExists \in BOOLEAN,
     outputExists \in BOOLEAN :
    InitWith(a, e, StartFiles(a, inputExists, outputExists))

(* ------------------------------- actions ------------------------------- *)

\* lines 110-118: validate the input file
Validate ==
  /\ pc = "validate"
  /\ pdf_path' = Path(args.pdf_file)
  /\ \/ /\ ~Exists(fs, pdf_path')
        /\ stdout' = Append(stdout, MsgNotFound)
        /\ exit_code' = 1
        /\ pc' = "exited"
     \/ /\ Exists(fs, pdf_path')
        /\ ~IsPdf(pdf_path')
        /\ stdout' = Append(stdout, MsgNotPdf)
        /\ exit_code' = 1
        /\ pc' = "exited"
     \/ /\ Exists(fs, pdf_path')
        /\ IsPdf(pdf_path')
        /\ pc' = "resolve"
        /\ UNCHANGED <<stdout, exit_code>>
  /\ UNCHANGED <<args, engine, fs0, fs, output_path, calls, delivered,
                 markdown_content, output_content, exc>>

\* lines 120-125: determine the output file
ResolveOutput ==
  /\ pc = "resolve"
  /\ output_path' = OutputPathFor(args)
  /\ pc' = "convert"
  /\ UNCHANGED <<args, engine, fs0, fs, pdf_path, calls, delivered,
                 markdown_content, output_content, exc, stdout, exit_code>>

\* a bug: the output file is opened before the conversion
StartConversionOpened ==
  /\ pc = "convert"
  /\ calls' = Append(calls, ConverterFor(args))
  /\ stdout' = Append(stdout, MsgConverting)
  /\ pc' = "converting"
  /\ fs' = IF output_path \in Directories THEN fs
           ELSE (output_path :> <<>>) @@ fs
  /\ UNCHANGED <<args, engine, fs0, pdf_path, output_path, delivered,
                 markdown_content, output_content, exc, exit_code>>

\* lines 129-133 and 21-29: build the converter, announce, call convert()
StartConversion ==
  /\ pc = "convert"
  /\ calls' = Append(calls, ConverterFor(args))
  /\ stdout' = Append(stdout, MsgConverting)
  /\ pc' = "converting"
  /\ UNCHANGED <<args, engine, fs0, fs, pdf_path, output_path, delivered,
                 markdown_content, output_content, exc, exit_code>>

\* lines 12-16: the engine reports progress
ProgressCallback ==
  /\ pc = "converting"
  /\ delivered < Len(engine.events)
  /\ stdout' = stdout \o ProgressOutput(engine.events[delivered + 1])
  /\ delivered' = delivered + 1
  /\ UNCHANGED <<args, engine, fs0, fs, pc, pdf_path, output_path, calls,
                 markdown_content, output_content, exc, exit_code>>

\* lines 29-30 and 129: convert() returns the Markdown
ConvertReturns ==
  /\ pc = "converting"
  /\ delivered = Len(engine.events)
  /\ ~engine.raises
  /\ markdown_content' = engine.text
  /\ pc' = "generate"
  /\ UNCHANGED <<args, engine, fs0, fs, pdf_path, output_path, calls,
                 delivered, output_content, exc, stdout, exit_code>>

\* lines 29 and 152: convert() raises
ConvertRaises ==
  /\ pc = "converting"
  /\ delivered = Len(engine.events)
  /\ engine.raises
  /\ exc' = "convert"
  /\ pc' = "except"
  /\ UNCHANGED <<args, engine, fs0, fs, pdf_path, output_path, calls,
                 delivered, markdown_content, output_content, stdout,
                 exit_code>>

\* lines 135-146: generate the output and announce where it is saved
GenerateOutput ==
  /\ pc = "generate"
  /\ output_content' = OutputContentFor(args, markdown_content)
  /\ stdout' = stdout \o SavedOutput(args)
  /\ pc' = "open"
  /\ UNCHANGED <<args, engine, fs0, fs, pdf_path, output_path, calls,
                 delivered, markdown_content, exc, exit_code>>

\* line 149: open(output_path, "w") creates the file or truncates it
OpenOutput ==
  /\ pc = "open"
  /\ output_path \notin Directories
  /\ fs' = (output_path :> <<>>) @@ fs
  /\ pc' = "write"
  /\ UNCHANGED <<args, engine, fs0, pdf_path, output_path, calls, delivered,
                 markdown_content, output_content, exc, stdout, exit_code>>

\* line 149: open() raises OSError (a directory, no permission, ...)
OpenRaises ==
  /\ pc = "open"
  /\ exc' = "open"
  /\ pc' = "except"
  /\ UNCHANGED <<args, engine, fs0, fs, pdf_path, output_path, calls,
                 delivered, markdown_content, output_content, stdout,
                 exit_code>>

\* lines 149-150: write() and the close at the end of the with block
WriteOutput ==
  /\ pc = "write"
  /\ \/ /\ Encodable(output_content)
        /\ fs' = (output_path :> Utf8Encode(output_content)) @@ fs
        /\ pc' = "done"
        /\ exc' = exc
     \/ /\ ~Encodable(output_content)
        /\ exc' = "write"
        /\ pc' = "except"
        /\ fs' = fs
  /\ UNCHANGED <<args, engine, fs0, pdf_path, output_path, calls, delivered,
                 markdown_content, output_content, stdout, exit_code>>

\* lines 149-150: the write or the flush raises OSError; nothing, or all but
\* the last byte, has reached the file
WriteRaises ==
  /\ pc = "write"
  /\ Encodable(output_content)
  /\ \E k \in {0, Len(Utf8Encode(output_content)) - 1} :
       /\ k >= 0
       /\ fs' = (output_path :> SubSeq(Utf8Encode(output_content), 1, k)) @@ fs
  /\ exc' = "write"
  /\ pc' = "except"
  /\ UNCHANGED <<args, engine, fs0, pdf_path, output_path, calls, delivered,
                 markdown_content, output_content, stdout, exit_code>>

\* a bug: the handler prints the error and returns
HandleExceptionReturns ==
  /\ pc = "except"
  /\ stdout' = Append(stdout, MsgError)
  /\ exit_code' = 0
  /\ pc' = "exited"
  /\ UNCHANGED <<args, engine, fs0, fs, pdf_path, output_path, calls,
                 delivered, markdown_content, output_content, exc>>

\* lines 152-154: the handler of every Exception
HandleException ==
  /\ pc = "except"
  /\ stdout' = Append(stdout, MsgError)
  /\ exit_code' = 1
  /\ pc' = "exited"
  /\ UNCHANGED <<args, engine, fs0, fs, pdf_path, output_path, calls,
                 delivered, markdown_content, output_content, exc>>

\* line 158: main returns and the interpreter exits with status 0
Return ==
  /\ pc = "done"
  /\ exit_code' = 0
  /\ pc' = "exited"
  /\ UNCHANGED <<args, engine, fs0, fs, pdf_path, output_path, calls,
                 delivered, markdown_content, output_content, exc, stdout>>

Next ==
  \/ Validate
  \/ ResolveOutput
  \/ StartConversion
  \/ ProgressCallback
  \/ ConvertReturns
  \/ ConvertRaises
  \/ GenerateOutput
  \/ OpenOutput
  \/ OpenRaises
  \/ WriteOutput
  \/ WriteRaises
  \/ HandleException
  \/ Return

Spec == Init /\ [][Next]_vars

SpecContent == InitContent /\ [][Next]_vars

SpecProgress == InitProgress /\ [][Next]_vars

(* ------------------------------ properties ---------------------------- *)

Pdf  == <<".", "p", "d", "f">>
Md   == <<".", "m", "d">>
Yaml == <<".", "y", "a", "m", "l">>

InputPath == Path(args.pdf_file)

\* out is inp with its extension .pdf replaced by ext
Replaced(inp, out, ext) ==
  /\ PathSuffix(out) = ext
  /\ SubSeq(out, 1, Len(out) - Len(ext)) = SubSeq(inp, 1, Len(inp) - Len(Pdf))

Derived ==
  Replaced(InputPath, output_path, IF args.markdown_only THEN Md ELSE Yaml)

\* C1 as stated: once the output path is resolved, it is the -o value when
\* one is given, and otherwise the input path with its extension replaced by
\* .md (markdown-only) or .yaml
C1_OutputPathAsStated ==
  output_path # Unset =>
    IF args.output.given THEN output_path = Path(args.output.value)
    ELSE Derived

\* C1 amended: once the output path is resolved, it is the -o value (as the
\* path it names) when a non-empty one is given, and otherwise - no -o, or
\* an empty one - the input path with its extension replaced by .md
\* (markdown-only) or .yaml
C1_OutputPath ==
  output_path # Unset =>
    IF args.output.given /\ args.output.value # <<>>
    THEN output_path = Path(args.output.value)
    ELSE Derived

C1_Witness ==
  /\ output_path # Unset
  /\ args.output.given
  /\ args.output.value = <<>>
  /\ args.markdown_only
  /\ Lower(PathSuffix(InputPath)) = Pdf /\ PathSuffix(InputPath) # Pdf
  /\ PathSuffix(output_path) = Md

\* C2: a run whose input path has an extension other than .pdf, compared
\* without case, never calls the converter, never changes a file, and exits
\* with 1 when it exits
C2_NotPdfExitsOne ==
  Lower(PathSuffix(InputPath)) # Pdf =>
    /\ calls = <<>>
    /\ fs = fs0
    /\ exit_code \in {NotExited, 1}
    /\ pc \in {"validate", "exited"}

C2_Witness ==
  /\ pc = "exited"
  /\ Exists(fs0, InputPath)
  /\ InputPath \notin Directories
  /\ PathSuffix(InputPath) = <<".", "t", "x", "t">>
  /\ stdout = <<MsgNotPdf>>
  /\ exit_code = 1

\* C3: a run whose input path does not exist never calls the converter,
\* never changes a file, and exits with 1 when it exits
C3_MissingExitsOne ==
  (InputPath \notin DOMAIN fs0 /\ InputPath \notin Directories) =>
    /\ calls = <<>>
    /\ fs = fs0
    /\ exit_code \in {NotExited, 1}
    /\ pc \in {"validate", "exited"}

C3_Witness ==
  /\ pc = "exited"
  /\ InputPath \notin DOMAIN fs0
  /\ PathSuffix(InputPath) = Pdf
  /\ args.output.given
  /\ stdout = <<MsgNotFound>>
  /\ exit_code = 1

\* the text in the output file
Written == Utf8Decode(fs[output_path])

\* C4: in markdown-only mode the content handed to write() is the text the
\* converter returned, and after a run that exits with 0 the output file
\* holds exactly that text
C4_MarkdownOnlyVerbatim ==
  args.markdown_only =>
    /\ pc \in {"open", "write", "done"} =>
         /\ markdown_content = engine.text
         /\ output_content = markdown_content
    /\ exit_code = 0 => Written = engine.text

C4_Witness ==
  /\ args.markdown_only
  /\ exit_code = 0
  /\ args.output.given
  /\ Len(engine.text) = 2
  /\ engine.text[1] = "U+00E9"
  /\ Written = engine.text

ScaffoldKeys == {"title", "purpose", "features", "metrics", "constraints"}

\* C5 as stated: after a default-mode run that exits with 0 the file holds
\* the scaffold keys, and the Markdown after the --- marker is the end of
\* the file
C5_FileEndsWithMarkdown ==
  (~args.markdown_only /\ exit_code = 0) =>
    LET n == Len(Written)
        m == Len(engine.text)
    IN  /\ n >= m + 1
        /\ SubSeq(Written, n - m + 1, n) = engine.text
        /\ Written[n - m] = "---\n"
        /\ ScaffoldKeys \subseteq {Written[i] : i \in 1..(n - m)}

\* C5 amended: after a default-mode run that exits with 0 the file holds the
\* scaffold keys, then the --- marker, then the Markdown, then one newline
\* that ends the file
C5_FileEndsWithMarkdownNewline ==
  (~args.markdown_only /\ exit_code = 0) =>
    LET n == Len(Written)
        m == Len(engine.text)
    IN  /\ n >= m + 2
        /\ Written[n] = "\n"
        /\ SubSeq(Written, n - m, n - 1) = engine.text
        /\ Written[n - m - 1] = "---\n"
        /\ ScaffoldKeys \subseteq {Written[i] : i \in 1..(n - m - 1)}

C5_Witness ==
  /\ ~args.markdown_only
  /\ exit_code = 0
  /\ engine.text = <<"{}", "---\n">>
  /\ Written[Len(Written)] = "\n"
  /\ SubSeq(Written, Len(Written) - 2, Len(Written) - 1) = engine.text

\* C6: every converter is built with remove_headers = not keep-headers and
\* skip_empty_tables = not include-empty-tables, and a run that has reached
\* the conversion has built exactly one
C6_FlagInversion ==
  /\ \A i \in 1..Len(calls) :
       /\ calls[i].remove_headers = ~args.keep_headers
       /\ calls[i].skip_empty_tables = ~args.include_empty_tables
  /\ pc \in {"converting", "generate", "open", "write", "done", "except"}
       => Len(calls) = 1

C6_Witness ==
  /\ pc = "converting"
  /\ args.keep_headers
  /\ ~args.include_empty_tables
  /\ calls = << [remove_headers |-> FALSE, skip_empty_tables |-> TRUE,
                 table_header |-> "### Table"] >>

\* C7: once the conversion, the open or the write has failed, the run is in
\* the handler or has exited, no step runs again, and the run exits with 1
\* after the error message; a run that exits with 0 has had no failure
C7_FailureIsTerminal ==
  /\ exc # "none" =>
       /\ pc \in {"except", "exited"}
       /\ Len(calls) = 1
       /\ exit_code \in {NotExited, 1}
  /\ (exc # "none" /\ pc = "exited") =>
       /\ exit_code = 1
       /\ stdout[Len(stdout)] = MsgError
       /\ Cardinality({i \in 1..Len(stdout) : stdout[i] = MsgError}) = 1

C7_Witness ==
  /\ pc = "exited"
  /\ exc = "write"
  /\ Encodable(output_content)
  /\ exit_code = 1
  /\ stdout[Len(stdout)] = MsgError

Confirmed ==
  \E i \in 1..Len(stdout) : stdout[i] \in {MsgMarkdown, MsgYaml}

FileWritten ==
  /\ output_path \in DOMAIN fs
  /\ fs[output_path] = Utf8Encode(output_content)

\* C8: a run that has exited with 0 has written the output file in full and
\* printed the confirmation, and a run that has exited after printing the
\* confirmation has written the output file and exited with 0
C8_ConfirmationOnlyOnSuccess ==
  pc = "exited" =>
    /\ exit_code = 0 => (FileWritten /\ Confirmed)
    /\ Confirmed => (FileWritten /\ exit_code = 0)

\* the events delivered up to the i-th line of stdout
EventOf(i) ==
  engine.events[Cardinality({j \in 1..i : stdout[j] = MsgProgress})]

Newlines == {i \in 1..Len(stdout) : stdout[i] = MsgNewline}

NewlineIffComplete ==
  \A i \in 1..Len(stdout) :
    stdout[i] = MsgProgress =>
      ((i < Len(stdout) /\ stdout[i + 1] = MsgNewline) <=> EventOf(i) >= 100)

\* C9 as stated: a newline follows a progress line exactly when its event
\* is at 100% or more, and a conversion ends the line at most once
C9_NewlineOncePerConversion ==
  /\ NewlineIffComplete
  /\ Cardinality(Newlines) <= 1

\* C9 amended: a newline follows a progress line exactly when its event is
\* at 100% or more, so a conversion ends the line once for each such event
\* (never, when none reaches 100%)
C9_NewlinePerCompleteEvent ==
  /\ NewlineIffComplete
  /\ Cardinality({j \in 1..Len(stdout) : stdout[j] = MsgProgress}) = delivered
  /\ Cardinality(Newlines) =
       Cardinality({k \in 1..delivered : engine.events[k] >= 100})

C9_Witness ==
  /\ delivered = 2
  /\ engine.events = <<150, 100>>
  /\ Cardinality(Newlines) = 2

\* C10: no file changes before the converter has returned and the output
\* content is assembled, and after the converter has raised every file is
\* as it was when the run started
C10_ConversionFailureLeavesFiles ==
  /\ pc \in {"validate", "resolve", "convert", "converting", "generate",
             "open"} => fs = fs0
  /\ exc = "convert" => fs = fs0

C10_Witness ==
  /\ pc = "exited"
  /\ exc = "convert"
  /\ output_path \in DOMAIN fs0
  /\ fs[output_path] = OldBytes

====
